---- MODULE Spec2Model ----
(***************************************************************************)
(* Model of the workflow monitor of coder-buddy (src/agent/monitoring.py)  *)
(* and of the workflow driver that uses it                                 *)
(* (src/agent/fast_project_generator.py).                                  *)
(*                                                                         *)
(* Python values are encoded as follows.                                   *)
(*   Optional[T]   None is <<>>, a present value x is <<x>>                *)
(*   dict          a sequence of values in insertion order, keyed by the   *)
(*                 session_id field (the key under which start_session     *)
(*                 stores a session is always its session_id)              *)
(*   datetime      a natural number read from the clock `now`              *)
(***************************************************************************)
EXTENDS Integers, Sequences, FiniteSets, TLC

\* ---------------------------------------------------------------- bounds
\* The clock stops advancing at MaxTime.
MaxTime == 1
\* start_step is not offered once the table holds MaxSteps steps in all.
MaxSteps == 2
\* subscribe is not offered once MaxSubscribers callbacks are registered.
MaxSubscribers == 2
\* The history is recorded for the first MaxLog notifications.
MaxLog == 4
MaxLimit == 3
\* FastCache.max_memory_size, 1000 in the source.
MaxMemorySize == 2

\* ---------------------------------------------------------------- inputs
SessionIds == {"s1", "s2"}
Prompts == {"p1"}
AgentNames == {"a1"}
StepNames == {"n1"}
Results == {<<>>, <<"r1">>}
ErrorMessages == {"e1"}
\* Callbacks that return normally, and callbacks that raise an Exception
\* whenever they are invoked.
RecordingCallbacks == {"cb1"}
RaisingCallbacks == {"bad"}
Callbacks == RecordingCallbacks \cup RaisingCallbacks

\* The workflow runs, and the identifier uuid4 gives each.
Runs == {"A", "B"}
RunSession(r) == IF r = "A" THEN "s1" ELSE "s2"

None == <<>>
Some(x) == <<x>>

\* The WebSocket objects the endpoint is called with, and the serialized
\* workflow updates that are broadcast.
WebSockets == {"w1", "w2", "w3"}
Messages == {"m1", "m2"}

\* The questions and answers the response cache is used with.
Keys == {"k1", "k2", "k3"}
Values == {"v1", "v2"}

\* Python truthiness of an Optional[str]: None and "" are both falsy.
AlwaysTruthy(v) == TRUE

Truthy(v) == v # None /\ v # Some("")

VARIABLES
    sessions,           \* WorkflowMonitor.sessions
    active_session_id,  \* WorkflowMonitor.active_session_id
    subscribers,        \* WorkflowMonitor.subscribers
    now,                \* the value datetime.now() returns
    \* What the last of the six state-transition operations did:
    notified,           \* the event type it passed to _notify_subscribers,
                        \* None if it returned without calling it
    delivered,          \* the callback invocations it made, in order
    exc,                \* the exception it let reach its caller, None if it
                        \* returned normally
    \* History since construction:
    applied,            \* the event types passed to _notify_subscribers
    log,                \* the callback invocations made
    since,              \* per subscriber, the length of applied when it
                        \* subscribed
    \* The workflow runs (FastProjectGenerator.generate_project_fast):
    pc,                 \* where each run stands
    current,            \* the run the event loop is executing, None while
                        \* every run is suspended at an await
    issued,             \* per run, the start_step calls it has made
    \* The query surface:
    returned,           \* the last query call and the value it returned
    \* The WebSocket connection managers (web_server.py,
    \* web_server_optimized.py):
    active_connections, \* ConnectionManager.active_connections
    closed,             \* the sockets whose endpoint has ended
    broadcasts,         \* per message, where its broadcast task stands
    sent,               \* the send_text calls made, as <<socket, message>>
    stayed,             \* per message, the sockets connected ever since
                        \* its broadcast was scheduled
    fast,               \* where the broadcast_fast call stands
    \* The response cache (FastCache):
    memory_cache,       \* FastCache.memory_cache
    disk,               \* the pickle files of FastCache.cache_dir
    got,                \* the last get call and the value it returned
    written             \* per key, the value of the last set of it

monitor == <<sessions, active_session_id, subscribers, now,
             notified, delivered, exc>>

history == <<applied, log, since>>

driver == <<pc, current, issued>>

web == <<active_connections, closed, broadcasts, sent, stayed, fast>>

cache == <<memory_cache, disk, got, written>>

servers == <<web, cache>>

vars == <<monitor, history, driver, returned, servers>>

\* ------------------------------------------------------------ dataclasses
WorkflowStep(agent_name, step_name, status, start_time) ==
    [agent_name |-> agent_name, step_name |-> step_name, status |-> status,
     start_time |-> start_time, end_time |-> None, result |-> None,
     error |-> None]

WorkflowSession(session_id, user_prompt, start_time) ==
    [session_id |-> session_id, user_prompt |-> user_prompt,
     start_time |-> start_time, end_time |-> None, status |-> "running",
     steps |-> <<>>, final_result |-> None]

\* ------------------------------------------------------------------ dict
DictKeys(d) == {d[i].session_id : i \in 1..Len(d)}

DictHas(d, k) == k \in DictKeys(d)

HasKeyNever(d, key) == FALSE

\* Whether d[key] finds an entry, for a key that may be None.
HasKey(d, key) == key # None /\ DictHas(d, key[1])

DictIndexFirst(d, k) == 1

DictIndex(d, k) == CHOOSE i \in 1..Len(d) : d[i].session_id = k

DictGetFirst(d, k) == d[1]

DictGet(d, k) == d[DictIndex(d, k)]

\* d[k] = v: an existing key keeps its position, a new key goes last.
DictSetEvicting(d, k, v) ==
    IF DictHas(d, k) THEN [d EXCEPT ![DictIndex(d, k)] = v] ELSE <<v>>

DictSetAlone(d, k, v) == <<v>>

DictSet(d, k, v) ==
    IF DictHas(d, k) THEN [d EXCEPT ![DictIndex(d, k)] = v] ELSE Append(d, v)

\* The number of steps held by all the sessions of the table.
RECURSIVE StepCount(_)
StepCount(d) ==
    IF d = <<>> THEN 0 ELSE Len(Head(d).steps) + StepCount(Tail(d))

\* --------------------------------------------------------------- notifier
\* What the except clause of _notify_subscribers does with an exception a
\* callback raised: it prints it and the loop goes on.
ExceptClausePropagates == "propagate"

ExceptClause == "continue"

RECURSIVE NotifyFrom(_, _, _, _)
NotifyFrom(subs, i, event_type, data) ==
    IF i > Len(subs) THEN [calls |-> <<>>, exc |-> None]
    ELSE LET call == [sub |-> i, callback |-> subs[i],
                      event_type |-> event_type, data |-> data]
         IN  IF subs[i] \in RaisingCallbacks /\ ExceptClause = "propagate"
             THEN [calls |-> <<call>>, exc |-> Some("Exception")]
             ELSE LET rest == NotifyFrom(subs, i + 1, event_type, data)
                  IN  [calls |-> <<call>> \o rest.calls, exc |-> rest.exc]

NotifyAllButFirst(subs, event_type, data) ==
    NotifyFrom(subs, 2, event_type, data)

_notify_subscribers(subs, event_type, data) ==
    NotifyFrom(subs, 1, event_type, data)

\* The event types the operations pass to _notify_subscribers.
SessionStarted == "session_started"
StepStarted == "step_started"
StepCompleted == "step_completed"
StepErrorCopied == "step_completed"

StepError == "step_error"
SessionCompleted == "session_completed"
SessionError == "session_error"

\* ------------------------------------------------------------ observation
\* An operation that returned at a guard: nothing stored, nobody notified.
Returned ==
    /\ notified' = None
    /\ delivered' = <<>>
    /\ exc' = None
    /\ UNCHANGED <<sessions, active_session_id, subscribers, now>>

\* self.sessions[key] on a key the table does not hold.
KeyError ==
    /\ notified' = None
    /\ delivered' = <<>>
    /\ exc' = Some("KeyError")
    /\ UNCHANGED <<sessions, active_session_id, subscribers, now>>

SessionData(session) ==
    [session_id |-> session.session_id, object |-> session, error |-> None]

StepData(session_id, step) ==
    [session_id |-> session_id, object |-> step, error |-> None]

SessionErrorData(session, error) ==
    [session_id |-> session.session_id, object |-> session,
     error |-> Some(error)]

\* ------------------------------------------------------------- operations
Init ==
    /\ sessions = <<>>
    /\ active_session_id = None
    /\ subscribers = <<>>
    /\ now = 0
    /\ notified = None
    /\ delivered = <<>>
    /\ exc = None
    /\ applied = <<>>
    /\ log = <<>>
    /\ since = <<>>
    /\ pc = [r \in Runs |-> "idle"]
    /\ current = None
    /\ issued = [r \in Runs |-> 0]
    /\ returned = None
    /\ active_connections = <<>>
    /\ closed = {}
    /\ broadcasts = [m \in Messages |->
                        [pc |-> "unscheduled", i |-> 0, n |-> 0,
                         raised |-> 0]]
    /\ sent = {}
    /\ stayed = [m \in Messages |-> {}]
    /\ fast = [pc |-> "idle"]
    /\ memory_cache = <<>>
    /\ disk = <<>>
    /\ got = None
    /\ written = [k \in Keys |-> None]

start_session(session_id, user_prompt) ==
    LET session == WorkflowSession(session_id, user_prompt, now)
        n == _notify_subscribers(subscribers, SessionStarted,
                                 SessionData(session))
    IN  /\ sessions' = DictSet(sessions, session_id, session)
        /\ active_session_id' = Some(session_id)
        /\ notified' = Some(SessionStarted)
        /\ delivered' = n.calls
        /\ exc' = n.exc
        /\ UNCHANGED <<subscribers, now>>

start_step(agent_name, step_name) ==
    IF ~Truthy(active_session_id) THEN Returned
    ELSE IF ~HasKey(sessions, active_session_id) THEN KeyError
    ELSE LET sid == active_session_id[1]
             session == DictGet(sessions, sid)
             step == WorkflowStep(agent_name, step_name, "running", now)
             n == _notify_subscribers(subscribers, StepStarted,
                                      StepData(sid, step))
         IN  /\ sessions' = DictSet(sessions, sid,
                    [session EXCEPT !.steps = Append(session.steps, step)])
             /\ notified' = Some(StepStarted)
             /\ delivered' = n.calls
             /\ exc' = n.exc
             /\ UNCHANGED <<active_session_id, subscribers, now>>

CompletedStepOpen(step, result) ==
    [step EXCEPT !.status = "completed", !.result = result]

\* The fields complete_step assigns to the current step.
CompletedStep(step, result) ==
    [step EXCEPT !.status = "completed", !.end_time = Some(now),
                 !.result = result]

\* The fields error_step assigns to the current step.
ErroredStep(step, error) ==
    [step EXCEPT !.status = "error", !.end_time = Some(now),
                 !.error = Some(error)]

\* The index of session.steps[-1].
LastButOne(steps) == IF Len(steps) > 1 THEN Len(steps) - 1 ELSE Len(steps)

FirstIndex(steps) == 1

LastIndex(steps) == Len(steps)

complete_step(result) ==
    IF ~Truthy(active_session_id) THEN Returned
    ELSE IF ~HasKey(sessions, active_session_id) THEN KeyError
    ELSE LET sid == active_session_id[1]
             session == DictGet(sessions, sid)
         IN  IF session.steps = <<>> THEN Returned
             ELSE LET i == LastIndex(session.steps)
                      current_step == CompletedStep(session.steps[i], result)
                      n == _notify_subscribers(subscribers, StepCompleted,
                               StepData(sid, current_step))
                  IN  /\ sessions' = DictSet(sessions, sid,
                             [session EXCEPT !.steps[i] = current_step])
                      /\ notified' = Some(StepCompleted)
                      /\ delivered' = n.calls
                      /\ exc' = n.exc
                      /\ UNCHANGED <<active_session_id, subscribers, now>>

error_step(error) ==
    IF ~Truthy(active_session_id) THEN Returned
    ELSE IF ~HasKey(sessions, active_session_id) THEN KeyError
    ELSE LET sid == active_session_id[1]
             session == DictGet(sessions, sid)
         IN  IF session.steps = <<>> THEN Returned
             ELSE LET i == LastIndex(session.steps)
                      current_step == ErroredStep(session.steps[i], error)
                      n == _notify_subscribers(subscribers, StepError,
                               StepData(sid, current_step))
                  IN  /\ sessions' = DictSet(sessions, sid,
                             [session EXCEPT !.steps[i] = current_step])
                      /\ notified' = Some(StepError)
                      /\ delivered' = n.calls
                      /\ exc' = n.exc
                      /\ UNCHANGED <<active_session_id, subscribers, now>>

\* The value complete_session and error_session assign to the pointer last.
PointerKept == active_session_id

ClearedPointer == None

\* The fields complete_session assigns to the session.
CompletedSession(session, final_result) ==
    [session EXCEPT !.status = "completed", !.end_time = Some(now),
                    !.final_result = final_result]

\* The fields error_session assigns to the session (the message is only
\* passed on to the subscribers).
ErroredSession(session, error) ==
    [session EXCEPT !.status = "error", !.end_time = Some(now)]

complete_session(final_result) ==
    IF ~Truthy(active_session_id) THEN Returned
    ELSE IF ~HasKey(sessions, active_session_id) THEN KeyError
    ELSE LET sid == active_session_id[1]
             session == CompletedSession(DictGet(sessions, sid), final_result)
             n == _notify_subscribers(subscribers, SessionCompleted,
                                      SessionData(session))
         IN  /\ sessions' = DictSet(sessions, sid, session)
             /\ notified' = Some(SessionCompleted)
             /\ delivered' = n.calls
             /\ exc' = n.exc
             \* the pointer is cleared once the notification has returned
             /\ active_session_id' =
                    IF n.exc = None THEN ClearedPointer ELSE active_session_id
             /\ UNCHANGED <<subscribers, now>>

error_session(error) ==
    IF ~Truthy(active_session_id) THEN Returned
    ELSE IF ~HasKey(sessions, active_session_id) THEN KeyError
    ELSE LET sid == active_session_id[1]
             session == ErroredSession(DictGet(sessions, sid), error)
             n == _notify_subscribers(subscribers, SessionError,
                                      SessionErrorData(session, error))
         IN  /\ sessions' = DictSet(sessions, sid, session)
             /\ notified' = Some(SessionError)
             /\ delivered' = n.calls
             /\ exc' = n.exc
             /\ active_session_id' =
                    IF n.exc = None THEN ClearedPointer ELSE active_session_id
             /\ UNCHANGED <<subscribers, now>>

subscribeFirst(callback) ==
    /\ Len(subscribers) < MaxSubscribers
    /\ subscribers' = <<callback>> \o subscribers
    /\ UNCHANGED <<sessions, active_session_id, now, notified, delivered, exc>>

subscribe(callback) ==
    /\ Len(subscribers) < MaxSubscribers
    /\ subscribers' = Append(subscribers, callback)
    /\ UNCHANGED <<sessions, active_session_id, now, notified, delivered, exc>>

\* Time passes between two operations.
Tick ==
    /\ now < MaxTime
    /\ now' = now + 1
    /\ UNCHANGED <<sessions, active_session_id, subscribers,
                   notified, delivered, exc>>

\* The history of a state-transition operation that has just run.
Record ==
    /\ applied' = IF notified' = None THEN applied
                  ELSE Append(applied, notified'[1])
    /\ log' = log \o delivered'
    /\ since' = since
    /\ UNCHANGED <<driver, returned, servers>>

\* No history is kept.
Plain == UNCHANGED <<history, driver, returned, servers>>

\* The history of a subscribe that has just run.
RecordSubscriber ==
    /\ since' = Append(since, Len(applied))
    /\ UNCHANGED <<applied, log>>
    /\ UNCHANGED <<driver, returned, servers>>

\* ------------------------------------------------- the monitor, one caller
\* The operations, with their arguments drawn from the given sets.
StartSession(ids, prompts) ==
    \E session_id \in ids, user_prompt \in prompts :
        start_session(session_id, user_prompt)

StartStep(agents, names) ==
    /\ StepCount(sessions) < MaxSteps
    /\ \E agent_name \in agents, step_name \in names :
          start_step(agent_name, step_name)

CompleteStep(results) ==
    \E result \in results  : complete_step(result)

ErrorStep(errors) ==
    \E error \in errors  : error_step(error)

CompleteSession(results) ==
    \E final_result \in results  :
        complete_session(final_result)

ErrorSession(errors) ==
    \E error \in errors  : error_session(error)

Subscribe(callbacks) == \E callback \in callbacks : subscribe(callback)

\* Any caller, any arguments; one callback may be subscribed.
Next ==
    \/ StartSession(SessionIds, Prompts) /\ Plain
    \/ StartStep(AgentNames, StepNames) /\ Plain
    \/ CompleteStep(Results) /\ Plain
    \/ ErrorStep(ErrorMessages) /\ Plain
    \/ CompleteSession(Results) /\ Plain
    \/ ErrorSession(ErrorMessages) /\ Plain
    \/ subscribers = <<>> /\ Subscribe(RecordingCallbacks) /\ Plain

Spec == Init /\ [][Next]_vars

\* ------------------------------------- the monitor and several subscribers
\* One session identifier, recording and raising callbacks, and the history
\* of the first MaxLog notifications.
NotifyIds == {"s1"}

NextNotify ==
    \/ Len(applied) < MaxLog /\ StartSession(NotifyIds, Prompts) /\ Record
    \/ Len(applied) < MaxLog /\ StartStep(AgentNames, StepNames) /\ Record
    \/ Len(applied) < MaxLog /\ CompleteStep(Results) /\ Record
    \/ Len(applied) < MaxLog /\ ErrorStep(ErrorMessages) /\ Record
    \/ Len(applied) < MaxLog /\ CompleteSession(Results) /\ Record
    \/ Len(applied) < MaxLog /\ ErrorSession(ErrorMessages) /\ Record
    \/ Subscribe(Callbacks) /\ RecordSubscriber

SpecNotify == Init /\ [][NextNotify]_vars

\* ------------------------------------------------- the monitor and the clock
\* One session identifier, one result, and time passing between operations.
ClockResults == {Some("r1")}

NextClock ==
    \/ StartSession(NotifyIds, Prompts) /\ Plain
    \/ StartStep(AgentNames, StepNames) /\ Plain
    \/ CompleteStep(ClockResults) /\ Plain
    \/ ErrorStep(ErrorMessages) /\ Plain
    \/ CompleteSession(ClockResults) /\ Plain
    \/ ErrorSession(ErrorMessages) /\ Plain
    \/ Subscribe(RecordingCallbacks) /\ Plain
    \/ Tick /\ Plain

SpecClock == Init /\ [][NextClock]_vars

\* ------------------------------------------- the monitor and falsy arguments
\* The empty string as a session identifier and as a result.
EdgeIds == {"", "s1"}
EdgeResults == Results \cup {Some("")}
EdgeStepNames == StepNames \cup {"n2"}

NextEdge ==
    \/ StartSession(EdgeIds, Prompts) /\ Plain
    \/ StartStep(AgentNames, EdgeStepNames) /\ Plain
    \/ CompleteStep(EdgeResults) /\ Plain
    \/ ErrorStep(ErrorMessages) /\ Plain
    \/ CompleteSession(EdgeResults) /\ Plain
    \/ ErrorSession(ErrorMessages) /\ Plain

SpecEdge == Init /\ [][NextEdge]_vars

\* ------------------------------------------------- concurrent workflow runs
\* Each request to /api/generate-project-fast awaits generate_project_fast on
\* the one event loop and the one workflow_monitor.  A run keeps the loop
\* between two awaits that suspend (run_in_executor, asyncio.gather); at such
\* an await any suspended or new run may be scheduled.  The server of that
\* endpoint (web_server_optimized.py) subscribes no callback.

\* The prompts of the requests, by the project type they are detected as.
RunPrompts == {"todo list", "chat room"}

_detect_project_type(prompt) ==
    IF prompt = "todo list" THEN "todo_app" ELSE "custom"

project_templates == {"todo_app", "calculator", "portfolio"}

FastPlanner == "Fast Planner"
FastArchitect == "Fast Architect"
FastCoder == "Fast Coder"
PlannerStepName == "Analyzing request with templates"
ArchitectStepName == "Creating implementation tasks"
CoderStepName == "Generating files in parallel"

\* plan.model_dump(), task_plan.model_dump() and the coder's summary.
ModelDump == Some("r1")
ProjectCompleted == Some("Project completed successfully")

\* The prompt is a local of the run; its own session, which no other run
\* replaces, keeps a copy.
user_prompt_of(r) == DictGet(sessions, RunSession(r)).user_prompt

Holds(r) == current = Some(r)
Suspended(r, label) == current = None /\ pc[r] = label

Goto(r, label, holder) ==
    /\ pc' = [pc EXCEPT ![r] = label]
    /\ current' = holder

\* fast_planner_agent, up to its try block.
PlannerStartSession(r) ==
    /\ Suspended(r, "idle")
    /\ \E user_prompt \in RunPrompts :
          start_session(RunSession(r), user_prompt)
    /\ Goto(r, "planner_session", Some(r))
    /\ UNCHANGED issued

PlannerStartStep(r) ==
    /\ Holds(r) /\ pc[r] = "planner_session"
    /\ start_step(FastPlanner, PlannerStepName)
    /\ Goto(r, "planner_try", Some(r))
    /\ issued' = [issued EXCEPT ![r] = @ + 1]

\* The template branch has no await.
PlannerTemplate(r) ==
    /\ Holds(r) /\ pc[r] = "planner_try"
    /\ _detect_project_type(user_prompt_of(r)) \in project_templates
    /\ complete_step(ModelDump)
    /\ Goto(r, "architect", Some(r))
    /\ UNCHANGED issued

\* The custom branch awaits the executor.
PlannerInvokeLLM(r) ==
    /\ Holds(r) /\ pc[r] = "planner_try"
    /\ _detect_project_type(user_prompt_of(r)) \notin project_templates
    /\ Goto(r, "planner_await", None)
    /\ UNCHANGED <<monitor, issued>>

PlannerResume(r) ==
    /\ Suspended(r, "planner_await")
    /\ complete_step(ModelDump)
    /\ Goto(r, "architect", Some(r))
    /\ UNCHANGED issued

\* The call or the parsing of its answer raised: error_step, and the
\* exception ends generate_project_fast in its except clause.
PlannerRaise(r) ==
    /\ Suspended(r, "planner_await")
    /\ \E error \in ErrorMessages : error_step(error)
    /\ Goto(r, "failed", None)
    /\ UNCHANGED issued

\* fast_architect_agent, up to its await of asyncio.gather.
ArchitectStartStep(r) ==
    /\ Holds(r) /\ pc[r] = "architect"
    /\ start_step(FastArchitect, ArchitectStepName)
    /\ Goto(r, "architect_await", None)
    /\ issued' = [issued EXCEPT ![r] = @ + 1]

ArchitectResume(r) ==
    /\ Suspended(r, "architect_await")
    /\ complete_step(ModelDump)
    /\ Goto(r, "coder", Some(r))
    /\ UNCHANGED issued

\* fast_coder_agent, up to its await of asyncio.gather.
CoderStartStep(r) ==
    /\ Holds(r) /\ pc[r] = "coder"
    /\ start_step(FastCoder, CoderStepName)
    /\ Goto(r, "coder_await", None)
    /\ issued' = [issued EXCEPT ![r] = @ + 1]

\* generate_file catches what it raises, so the gather returns.
CoderResume(r) ==
    /\ Suspended(r, "coder_await")
    /\ complete_step(ModelDump)
    /\ Goto(r, "coder_end", Some(r))
    /\ UNCHANGED issued

CoderCompleteSession(r) ==
    /\ Holds(r) /\ pc[r] = "coder_end"
    /\ complete_session(ProjectCompleted)
    /\ Goto(r, "done", None)
    /\ UNCHANGED issued

NextRuns ==
    \/ \E r \in Runs : PlannerStartSession(r) /\ UNCHANGED <<history, returned, servers>>
    \/ \E r \in Runs : PlannerStartStep(r) /\ UNCHANGED <<history, returned, servers>>
    \/ \E r \in Runs : PlannerTemplate(r) /\ UNCHANGED <<history, returned, servers>>
    \/ \E r \in Runs : PlannerInvokeLLM(r) /\ UNCHANGED <<history, returned, servers>>
    \/ \E r \in Runs : PlannerResume(r) /\ UNCHANGED <<history, returned, servers>>
    \/ \E r \in Runs : PlannerRaise(r) /\ UNCHANGED <<history, returned, servers>>
    \/ \E r \in Runs : ArchitectStartStep(r) /\ UNCHANGED <<history, returned, servers>>
    \/ \E r \in Runs : ArchitectResume(r) /\ UNCHANGED <<history, returned, servers>>
    \/ \E r \in Runs : CoderStartStep(r) /\ UNCHANGED <<history, returned, servers>>
    \/ \E r \in Runs : CoderResume(r) /\ UNCHANGED <<history, returned, servers>>
    \/ \E r \in Runs : CoderCompleteSession(r) /\ UNCHANGED <<history, returned, servers>>

SpecRuns == Init /\ [][NextRuns]_vars

\* ------------------------------------------------------- the query surface
\* The queries read the registry and assign nothing; each is the value the
\* call returns in the current state.

get_session(session_id) ==
    IF DictHas(sessions, session_id)
    THEN Some(DictGet(sessions, session_id)) ELSE None

Unsorted(list) == list

\* list.sort(key=start_time, reverse=True) is stable: of the sessions with
\* the latest start time the one first in the list comes first.
RECURSIVE sort_reverse(_)
sort_reverse(list) ==
    IF list = <<>> THEN <<>>
    ELSE LET first == CHOOSE i \in 1..Len(list) :
                    /\ \A j \in 1..Len(list) :
                          list[j].start_time <= list[i].start_time
                    /\ \A j \in 1..(i - 1) :
                          list[j].start_time < list[i].start_time
             rest == [j \in 1..(Len(list) - 1) |->
                        IF j < first THEN list[j] ELSE list[j + 1]]
         IN  <<list[first]>> \o sort_reverse(rest)

\* list[:limit], for a limit of either sign.
Slice(list, limit) ==
    IF limit >= 0
    THEN SubSeq(list, 1, IF limit < Len(list) THEN limit ELSE Len(list))
    ELSE SubSeq(list, 1, IF Len(list) + limit > 0 THEN Len(list) + limit ELSE 0)

\* list(self.sessions.values()) is the table in insertion order.
get_recent_sessions(limit) == Slice(sort_reverse(sessions), limit)

\* datetime.isoformat(): the text of a reading of the clock.
isoformat(t) == ToString(t)

\* str(value); the results and messages of the model are strings, which str
\* returns as they are.
str(value) == value

\* value.isoformat() if value else None, for an Optional datetime.
IsoOrNone(value) == IF value = None THEN None ELSE Some(isoformat(value[1]))

\* str(value) if value else None.
StrOrNone(value) == IF Truthy(value) THEN Some(str(value[1])) ELSE None

_step_to_dict(step) ==
    [agent_name |-> step.agent_name,
     step_name |-> step.step_name,
     status |-> step.status,
     start_time |-> Some(isoformat(step.start_time)),
     end_time |-> IsoOrNone(step.end_time),
     result |-> StrOrNone(step.result),
     error |-> step.error]

SessionToDictWithoutSteps(session) ==
    [session_id |-> session.session_id,
     user_prompt |-> session.user_prompt,
     start_time |-> Some(isoformat(session.start_time)),
     end_time |-> IsoOrNone(session.end_time),
     status |-> session.status,
     steps |-> <<>>,
     final_result |-> StrOrNone(session.final_result)]

_session_to_dict(session) ==
    [session_id |-> session.session_id,
     user_prompt |-> session.user_prompt,
     start_time |-> Some(isoformat(session.start_time)),
     end_time |-> IsoOrNone(session.end_time),
     status |-> session.status,
     steps |-> [j \in 1..Len(session.steps) |->
                   _step_to_dict(session.steps[j])],
     final_result |-> StrOrNone(session.final_result)]

\* The dict {}.
EmptyDict == [view |-> "empty"]

\* to_dict(session_id), session_id an Optional[str].  The dict of the whole
\* registry is the sequence of the views in insertion order.
to_dict(session_id) ==
    IF Truthy(session_id)
    THEN IF DictHas(sessions, session_id[1])
         THEN _session_to_dict(DictGet(sessions, session_id[1]))
         ELSE EmptyDict
    ELSE [sessions |-> [i \in 1..Len(sessions) |->
                           _session_to_dict(sessions[i])],
          active_session_id |-> active_session_id]

\* A query call: it returns its value and leaves the registry alone.
Query(call, arg, value) ==
    /\ returned' = Some([call |-> call, arg |-> arg, value |-> value])
    /\ UNCHANGED <<monitor, history, driver, servers>>

\* The caller has let go of the value the last query returned.
Dropped == returned' = None /\ UNCHANGED <<history, driver, servers>>

GetSession(ids) ==
    \E session_id \in ids :
        Query("get_session", <<session_id>>, get_session(session_id))

GetRecentSessions(limits) ==
    \E limit \in limits :
        Query("get_recent_sessions", <<limit>>, get_recent_sessions(limit))

ToDict(args) ==
    \E session_id \in args :
        Query("to_dict", session_id, to_dict(session_id))

\* The identifiers of the callers of the queries, the empty string among
\* them.
QueryIds == EdgeIds

\* The arguments of to_dict: none, the empty string, an identifier.
ToDictArgs == {None} \cup {Some(id) : id \in QueryIds}

\* The default limit of get_recent_sessions.
DefaultLimit == 10

\* Any caller of the operations and of the queries, the empty string among
\* the identifiers; no subscriber, one reading of the clock.
NextQuery ==
    \/ StartSession(QueryIds, Prompts) /\ Dropped
    \/ StartStep(AgentNames, StepNames) /\ Dropped
    \/ CompleteStep(ClockResults) /\ Dropped
    \/ ErrorStep(ErrorMessages) /\ Dropped
    \/ CompleteSession(ClockResults) /\ Dropped
    \/ ErrorSession(ErrorMessages) /\ Dropped
    \/ GetSession(QueryIds)
    \/ GetRecentSessions({DefaultLimit})
    \/ ToDict(ToDictArgs)

SpecQuery == Init /\ [][NextQuery]_vars

\* Sessions started at several readings of the clock, and the recent ones
\* asked for.
RecentIds == {"s1", "s2", "s3"}
Limits == (-1)..MaxLimit

NextRecent ==
    \/ StartSession(RecentIds, Prompts) /\ Dropped
    \/ CompleteSession(ClockResults) /\ Dropped
    \/ Tick /\ Dropped
    \/ GetRecentSessions(Limits)

SpecRecent == Init /\ [][NextRecent]_vars

\* ---------------------------------------- web_server.py: the broadcaster
\* x in list
Contains(list, x) == \E i \in 1..Len(list) : list[i] = x

\* list.remove(x): the list without the first occurrence of x.
Remove(list, x) ==
    LET i == CHOOSE k \in 1..Len(list) :
                 list[k] = x /\ \A j \in 1..(k - 1) : list[j] # x
    IN  SubSeq(list, 1, i - 1) \o SubSeq(list, i + 1, Len(list))

Elements(list) == {list[i] : i \in 1..Len(list)}

\* ConnectionManager.connect, after the accept.
connect(websocket) ==
    active_connections' = Append(active_connections, websocket)

\* ConnectionManager.disconnect.
disconnect(websocket) ==
    active_connections' = Remove(active_connections, websocket)

\* websocket_endpoint is called with a new socket and connects it.
Connect(sockets) ==
    \E websocket \in sockets :
        /\ ~Contains(active_connections, websocket)
        /\ websocket \notin closed
        /\ connect(websocket)
        /\ UNCHANGED <<closed, broadcasts, sent, stayed, fast>>

\* websocket_endpoint catches WebSocketDisconnect while it awaits the
\* socket, and disconnects it.
Disconnect(sockets) ==
    \E websocket \in sockets :
        /\ Contains(active_connections, websocket)
        /\ disconnect(websocket)
        /\ closed' = closed \cup {websocket}
        /\ stayed' = [m \in Messages |-> stayed[m] \ {websocket}]
        /\ UNCHANGED <<broadcasts, sent, fast>>

\* The number of broadcast tasks created so far.
Created == Cardinality({m \in Messages : broadcasts[m].pc # "unscheduled"})

\* workflow_callback, the subscriber of the monitor: it builds the message,
\* hands manager.broadcast(message) to asyncio.create_task and returns to
\* the registry operation that notified it.
workflow_callback(message) ==
    /\ broadcasts[message].pc = "unscheduled"
    /\ broadcasts' = [broadcasts EXCEPT ![message] =
                         [pc |-> "scheduled", i |-> 0, n |-> Created,
                          raised |-> 0]]
    /\ stayed' = [stayed EXCEPT ![message] = Elements(active_connections)]
    /\ UNCHANGED <<active_connections, closed, sent, fast>>

\* The event loop starts the tasks in the order they were created.
FirstScheduled(message) ==
    \A m \in Messages :
        broadcasts[m].pc = "scheduled" => broadcasts[m].n >= broadcasts[message].n

\* ConnectionManager.broadcast, one turn of
\*     for connection in self.active_connections:
\*         try: await connection.send_text(message)
\* The list iterator keeps an index into the list as the list is now; the
\* loop ends when the index has reached the length of the list.
BroadcastNext(message) ==
    LET b == broadcasts[message]
        connection == active_connections[b.i + 1]
    IN  /\ \/ b.pc = "scheduled" /\ FirstScheduled(message)
           \/ b.pc = "loop"
        /\ IF b.i < Len(active_connections)
           THEN /\ broadcasts' = [broadcasts EXCEPT ![message] =
                                     [b EXCEPT !.pc = "send", !.i = b.i + 1]]
                /\ sent' = sent \cup {<<connection, message>>}
           ELSE /\ broadcasts' = [broadcasts EXCEPT ![message] =
                                     [b EXCEPT !.pc = "done"]]
                /\ UNCHANGED sent
        /\ UNCHANGED <<active_connections, closed, stayed, fast>>

\* The awaited send_text has returned.
SendReturns(message) ==
    /\ broadcasts[message].pc = "send"
    /\ broadcasts' = [broadcasts EXCEPT ![message].pc = "loop"]
    /\ UNCHANGED <<active_connections, closed, sent, stayed, fast>>

\* The awaited send_text has raised: except: pass.
SendRaises(message) ==
    /\ broadcasts[message].pc = "send"
    /\ broadcasts' = [broadcasts EXCEPT ![message].pc = "loop",
                                        ![message].raised = @ + 1]
    /\ UNCHANGED <<active_connections, closed, sent, stayed, fast>>

\* Nothing but the connection manager runs.
OnlyWeb == UNCHANGED <<monitor, history, driver, returned, cache>>

\* A send_text that stalls is a "send" the task never leaves.
NextBroadcast ==
    \/ Connect(WebSockets) /\ OnlyWeb
    \/ Disconnect(WebSockets) /\ OnlyWeb
    \/ \E message \in Messages : workflow_callback(message) /\ OnlyWeb
    \/ \E message \in Messages : BroadcastNext(message) /\ OnlyWeb
    \/ \E message \in Messages : SendReturns(message) /\ OnlyWeb
    \/ \E message \in Messages : SendRaises(message) /\ OnlyWeb

SpecBroadcast == Init /\ [][NextBroadcast]_vars

\* ----------------------------- web_server_optimized.py: the broadcaster
\* OptimizedConnectionManager.connect, after the accept.
optimized_connect(websocket) ==
    active_connections' = Append(active_connections, websocket)

\* OptimizedConnectionManager.disconnect, as a function of the list.
optimized_disconnect(list, websocket) ==
    IF Contains(list, websocket) THEN Remove(list, websocket) ELSE list

\* websocket_endpoint is called with a new socket and connects it.
OptimizedConnect(sockets) ==
    \E websocket \in sockets :
        /\ ~Contains(active_connections, websocket)
        /\ websocket \notin closed
        /\ optimized_connect(websocket)
        /\ UNCHANGED <<closed, broadcasts, sent, stayed, fast>>

\* websocket_endpoint catches WebSocketDisconnect and disconnects the
\* socket.
OptimizedDisconnect(sockets) ==
    \E websocket \in sockets :
        /\ Contains(active_connections, websocket)
        /\ active_connections' =
               optimized_disconnect(active_connections, websocket)
        /\ closed' = closed \cup {websocket}
        /\ UNCHANGED <<broadcasts, sent, stayed, fast>>

\* broadcast_fast up to its await: without connections it returns, else it
\* makes one _send_safe per connection of the list as it is now and awaits
\* them all with asyncio.gather(*tasks, return_exceptions=True).
BroadcastFastCall ==
    /\ fast.pc \in {"idle", "done"}
    /\ fast' = IF active_connections = <<>>
               THEN [pc |-> "done", tasks |-> <<>>, results |-> <<>>,
                     error |-> None]
               ELSE [pc |-> "gather", tasks |-> active_connections,
                     results |-> [i \in 1..Len(active_connections) |->
                                     "pending"],
                     error |-> None]
    /\ UNCHANGED <<active_connections, closed, broadcasts, sent, stayed>>

\* _send_safe: the send_text of one task has returned.
SendSafeReturns(i) ==
    /\ fast.pc = "gather"
    /\ i \in 1..Len(fast.results)
    /\ fast.results[i] = "pending"
    /\ fast' = [fast EXCEPT !.results[i] = "ok"]
    /\ UNCHANGED <<active_connections, closed, broadcasts, sent, stayed>>

\* _send_safe: the send_text of one task has raised, and gather keeps the
\* exception as the result of the task.
SendSafeRaises(i) ==
    /\ fast.pc = "gather"
    /\ i \in 1..Len(fast.results)
    /\ fast.results[i] = "pending"
    /\ fast' = [fast EXCEPT !.results[i] = "exception"]
    /\ UNCHANGED <<active_connections, closed, broadcasts, sent, stayed>>

\* The indices i with isinstance(results[i], Exception), in order.
RECURSIVE FailedFrom(_, _)
FailedFrom(results, i) ==
    IF i > Len(results) THEN <<>>
    ELSE (IF results[i] = "exception" THEN <<i>> ELSE <<>>)
             \o FailedFrom(results, i + 1)

\* for conn in disconnected: self.disconnect(conn)
RECURSIVE DisconnectAll(_, _)
DisconnectAll(list, disconnected) ==
    IF disconnected = <<>> THEN list
    ELSE DisconnectAll(optimized_disconnect(list, Head(disconnected)),
                       Tail(disconnected))

\* broadcast_fast after its await: for each task that raised it takes
\* self.active_connections[i], the socket at the index of the task in the
\* list as it is now, and disconnects the sockets it has taken. An index
\* past the end of the list raises IndexError out of broadcast_fast.
BroadcastFastResume ==
    LET failed == FailedFrom(fast.results, 1)
        disconnected == [k \in 1..Len(failed) |->
                            active_connections[failed[k]]]
    IN  /\ fast.pc = "gather"
        /\ \A i \in 1..Len(fast.results) : fast.results[i] # "pending"
        /\ IF \E k \in 1..Len(failed) : failed[k] > Len(active_connections)
           THEN /\ fast' = [fast EXCEPT !.pc = "done",
                                        !.error = Some("IndexError")]
                /\ UNCHANGED <<active_connections, closed>>
           ELSE /\ fast' = [fast EXCEPT !.pc = "done"]
                /\ active_connections' =
                       DisconnectAll(active_connections, disconnected)
                /\ closed' = closed \cup Elements(disconnected)
        /\ UNCHANGED <<broadcasts, sent, stayed>>

NextFast ==
    \/ OptimizedConnect(WebSockets) /\ OnlyWeb
    \/ OptimizedDisconnect(WebSockets) /\ OnlyWeb
    \/ BroadcastFastCall /\ OnlyWeb
    \/ \E i \in 1..Cardinality(WebSockets) : SendSafeReturns(i) /\ OnlyWeb
    \/ \E i \in 1..Cardinality(WebSockets) : SendSafeRaises(i) /\ OnlyWeb
    \/ BroadcastFastResume /\ OnlyWeb

SpecFast == Init /\ [][NextFast]_vars

\* --------------------------------------- fast_qa_agent.py: the cache
max_memory_size == MaxMemorySize

\* FastCache._get_key_hash: the MD5 digest of the key, taken to be free of
\* collisions.
_get_key_hash(key) == <<"md5", key>>

\* len(d), key in d, d[key] = value for a dict held as a function.
Size(d) == Cardinality(DOMAIN d)

Store(d, key, value) ==
    [k \in DOMAIN d \cup {key} |-> IF k = key THEN value ELSE d[k]]

\* FastCache.set, with a disk write that succeeds.
set(key, value) ==
    LET key_hash == _get_key_hash(key)
    IN  /\ memory_cache' = IF Size(memory_cache) < max_memory_size
                           THEN Store(memory_cache, key_hash, value)
                           ELSE memory_cache
        /\ disk' = Store(disk, key_hash, value)

\* FastCache.get, with a disk read that succeeds: the value it returns and
\* the memory cache it leaves.
get(key) ==
    LET key_hash == _get_key_hash(key)
    IN  IF key_hash \in DOMAIN memory_cache
        THEN [value |-> Some(memory_cache[key_hash]),
              memory_cache |-> memory_cache]
        ELSE IF key_hash \in DOMAIN disk
        THEN [value |-> Some(disk[key_hash]),
              memory_cache |-> IF Size(memory_cache) < max_memory_size
                               THEN Store(memory_cache, key_hash,
                                          disk[key_hash])
                               ELSE memory_cache]
        ELSE [value |-> None, memory_cache |-> memory_cache]

Set(keys, values) ==
    \E key \in keys, value \in values :
        /\ set(key, value)
        /\ written' = [written EXCEPT ![key] = Some(value)]
        /\ got' = None

Get(keys) ==
    \E key \in keys :
        /\ memory_cache' = get(key).memory_cache
        /\ got' = Some([key |-> key, value |-> get(key).value])
        /\ UNCHANGED <<disk, written>>

\* Nothing but the cache runs.
OnlyCache == UNCHANGED <<monitor, history, driver, returned, web>>

NextCache ==
    \/ Set(Keys, Values) /\ OnlyCache
    \/ Get(Keys) /\ OnlyCache

SpecCache == Init /\ [][NextCache]_vars

\* ================================================================ claims
Terminal == {"completed", "error"}

\* The step that just ran was start_session(id, _).
Restarted(id) ==
    /\ notified' = Some("session_started")
    /\ active_session_id' = Some(id)

\* C1 as stated: once the session registered under an identifier is
\* 'completed' or 'error', no operation changes the status registered under
\* that identifier.
C1_StatusNeverChanges ==
    [][\A i \in 1..Len(sessions) :
          sessions[i].status \in Terminal =>
              /\ DictHas(sessions', sessions[i].session_id)
              /\ DictGet(sessions', sessions[i].session_id).status
                     = sessions[i].status]_vars

\* C1 amended: once the session registered under an identifier is
\* 'completed' or 'error', the status registered under that identifier is
\* changed by no operation other than a start_session with the same
\* identifier, which replaces the record by a new 'running' session.
C1_TerminalUntilRestarted ==
    [][\A i \in 1..Len(sessions) :
          sessions[i].status \in Terminal =>
              /\ DictHas(sessions', sessions[i].session_id)
              /\ \/ DictGet(sessions', sessions[i].session_id).status
                        = sessions[i].status
                 \/ /\ Restarted(sessions[i].session_id)
                    /\ DictGet(sessions', sessions[i].session_id).status
                           = "running"]_vars

\* A session is terminal and a step of another session was completed since.
C1_Witness ==
    \E i, j \in 1..Len(sessions) :
        /\ sessions[i].status \in Terminal
        /\ active_session_id = Some(sessions[j].session_id)
        /\ i # j
        /\ notified = Some("step_completed")

\* C2 as stated: in every session, every step but the last is 'completed' or
\* 'error'.
C2_OnlyLastStepRunning ==
    \A i \in 1..Len(sessions) :
        \A j \in 1..(Len(sessions[i].steps) - 1) :
            sessions[i].steps[j].status \in Terminal

\* The step is one of the six state-transition operations (subscribe changes
\* the subscriber list and Tick the clock; they leave notified, delivered and
\* exc as the last operation set them).
OpStep == subscribers' = subscribers /\ now' = now

SessionEndEvents == {"session_completed", "session_error"}
StepEvents == {"step_started", "step_completed", "step_error"}

\* C3: whenever an operation notifies, with any mix of raising and recording
\* subscribers: every subscriber is invoked once, in turn, with the same
\* event (a raising subscriber stops none after it); no exception reaches the
\* caller; and the operation is carried out in full, as without a raising
\* subscriber: the object notified is the one stored, and the statement that
\* follows the notification (clearing the pointer) has run.
C3_SubscriberIsolation ==
    [][(OpStep /\ notified' # None) =>
          /\ exc' = None
          /\ Len(delivered') = Len(subscribers)
          /\ \A i \in 1..Len(subscribers) :
                /\ delivered'[i].sub = i
                /\ delivered'[i].callback = subscribers[i]
                /\ delivered'[i].event_type = notified'[1]
                /\ delivered'[i].data = delivered'[1].data
                /\ DictHas(sessions', delivered'[i].data.session_id)
                /\ LET stored == DictGet(sessions', delivered'[i].data.session_id)
                   IN  IF notified'[1] \in StepEvents
                       THEN /\ stored.steps # <<>>
                            /\ stored.steps[Len(stored.steps)]
                                   = delivered'[i].data.object
                       ELSE stored = delivered'[i].data.object
          /\ notified'[1] \in SessionEndEvents => active_session_id' = None
          /\ notified'[1] \in StepEvents =>
                active_session_id' = active_session_id
          /\ notified'[1] = "session_started" =>
                /\ active_session_id' # None
                /\ DictHas(sessions', active_session_id'[1])]_vars

\* A raising callback is subscribed before a recording one, and
\* complete_session has notified both and cleared the pointer.
C3_Witness ==
    /\ subscribers = <<"bad", "cb1">>
    /\ notified = Some("session_completed")
    /\ Len(delivered) = 2
    /\ delivered[2].callback = "cb1"
    /\ delivered[2].event_type = "session_completed"
    /\ exc = None
    /\ active_session_id = None

\* C4: while the pointer is None, every operation other than start_session
\* returns normally, leaves the session table (every session's status, end
\* time, result and steps) and the pointer as they were, and notifies nobody.
C4_NoActiveSessionNoOp ==
    [][(active_session_id = None /\ OpStep
           /\ notified' # Some("session_started")) =>
          /\ sessions' = sessions
          /\ active_session_id' = None
          /\ notified' = None
          /\ delivered' = <<>>
          /\ exc' = None]_vars

\* A session was completed, which cleared the pointer, a callback is
\* subscribed, and the operation that came next returned at its guard.
C4_Witness ==
    /\ active_session_id = None
    /\ \E i \in 1..Len(sessions) :
          sessions[i].status = "completed" /\ sessions[i].end_time # None
    /\ subscribers # <<>>
    /\ notified = None
    /\ delivered = <<>>
    /\ exc = None

EventTypes ==
    {"session_started", "step_started", "step_completed", "step_error",
     "session_completed", "session_error"}

\* The operation notified every subscriber once, in turn, of event e.
Sent(e) ==
    /\ notified' = Some(e)
    /\ Len(delivered') = Len(subscribers)
    /\ \A i \in 1..Len(subscribers) :
          delivered'[i].sub = i /\ delivered'[i].event_type = e

\* The operation notified nobody.
Silent == notified' = None /\ delivered' = <<>>

\* There is an active session, and it has a step.
HasActive == active_session_id # None /\ active_session_id # Some("")
HasStep ==
    /\ HasActive
    /\ DictGet(sessions, active_session_id[1]).steps # <<>>

\* What C7 says of the operations that pass their guards: each notifies every
\* subscriber once, with the event type of the operation; and no other event
\* type is delivered.
EventMatchesOperation ==
    /\ \A id \in NotifyIds, p \in Prompts :
          start_session(id, p) => Sent("session_started")
    /\ \A a \in AgentNames, n \in StepNames :
          (HasActive /\ start_step(a, n)) => Sent("step_started")
    /\ \A r \in Results :
          (HasStep /\ complete_step(r)) => Sent("step_completed")
    /\ \A e \in ErrorMessages :
          (HasStep /\ error_step(e)) => Sent("step_error")
    /\ \A r \in Results :
          (HasActive /\ complete_session(r)) => Sent("session_completed")
    /\ \A e \in ErrorMessages :
          (HasActive /\ error_session(e)) => Sent("session_error")
    /\ \A k \in 1..Len(delivered') : delivered'[k].event_type \in EventTypes

\* C7 as stated: besides the above, an operation that leaves the session
\* table and the pointer as they were delivers no event.
C7_NoEventWithoutStateChange ==
    [][OpStep =>
          /\ EventMatchesOperation
          /\ (sessions' = sessions /\ active_session_id' = active_session_id)
                => delivered' = <<>>]_vars

\* C7 amended: besides the above, an operation that returns at a guard (no
\* active session, or no step to complete or fail) delivers no event.
C7_EventPerTransition ==
    [][OpStep =>
          /\ EventMatchesOperation
          /\ \A a \in AgentNames, n \in StepNames :
                (~HasActive /\ start_step(a, n)) => Silent
          /\ \A r \in Results : (~HasStep /\ complete_step(r)) => Silent
          /\ \A e \in ErrorMessages : (~HasStep /\ error_step(e)) => Silent
          /\ \A r \in Results : (~HasActive /\ complete_session(r)) => Silent
          /\ \A e \in ErrorMessages :
                (~HasActive /\ error_session(e)) => Silent]_vars

\* Two callbacks were notified of the failure of a step.
C7_Witness ==
    /\ Len(subscribers) = 2
    /\ notified = Some("step_error")
    /\ Len(delivered) = 2
    /\ \E i \in 1..Len(sessions) :
          /\ sessions[i].steps # <<>>
          /\ sessions[i].steps[Len(sessions[i].steps)].status = "error"

\* C8: start_session(id, prompt) leaves under id a session with that prompt,
\* status 'running', no step and no end time; id is the active session; the
\* other registered sessions are as they were; session_started was notified.
C8_StartSessionPost ==
    [][\A id \in SessionIds, p \in Prompts :
          start_session(id, p) =>
              /\ DictKeys(sessions') = DictKeys(sessions) \cup {id}
              /\ LET session == DictGet(sessions', id)
                 IN  /\ session.session_id = id
                     /\ session.user_prompt = p
                     /\ session.status = "running"
                     /\ session.steps = <<>>
                     /\ session.end_time = None
              /\ active_session_id' = Some(id)
              /\ \A other \in DictKeys(sessions) \ {id} :
                    DictGet(sessions', other) = DictGet(sessions, other)
              /\ Sent("session_started")
              /\ exc' = None]_vars

\* s2 was started, and notified, while s1 held a step.
C8_Witness ==
    /\ active_session_id = Some("s2")
    /\ notified = Some("session_started")
    /\ delivered # <<>>
    /\ DictHas(sessions, "s1") /\ DictHas(sessions, "s2")
    /\ DictGet(sessions, "s1").steps # <<>>
    /\ DictGet(sessions, "s2").steps = <<>>
    /\ DictGet(sessions, "s2").status = "running"

\* C9 as stated: whenever the pointer holds an identifier, the empty string
\* included, start_step(agent, name) appends one 'running' step with that
\* agent name and step name and no end time to that session, leaves the
\* earlier steps and the session's status as they were, and notifies
\* step_started.
C9_StartStepPost ==
    [][\A a \in AgentNames, n \in EdgeStepNames :
          (active_session_id # None /\ start_step(a, n)) =>
              LET old == DictGet(sessions, active_session_id[1])
                  new == DictGet(sessions', active_session_id[1])
                  k == Len(old.steps)
              IN  /\ Len(new.steps) = k + 1
                  /\ new.steps[k + 1].agent_name = a
                  /\ new.steps[k + 1].step_name = n
                  /\ new.steps[k + 1].status = "running"
                  /\ new.steps[k + 1].end_time = None
                  /\ \A j \in 1..k : new.steps[j] = old.steps[j]
                  /\ new.status = old.status
                  /\ Sent("step_started")]_vars

\* C10: with an active session that has a step, complete_step(result) makes
\* the last step 'completed' with an end time and that result, error_step(msg)
\* makes it 'error' with an end time and that message; the number of steps,
\* the earlier steps, the session's status and the pointer stay.  With an
\* active session without steps both change nothing and notify nobody.
LastStepBecomes(status) ==
    LET old == DictGet(sessions, active_session_id[1])
        new == DictGet(sessions', active_session_id[1])
        k == Len(old.steps)
    IN  /\ Len(new.steps) = k
        /\ new.steps[k].status = status
        /\ new.steps[k].end_time # None
        /\ \A j \in 1..(k - 1) : new.steps[j] = old.steps[j]
        /\ new.status = old.status
        /\ active_session_id' = active_session_id

LastStepNew == 
    LET new == DictGet(sessions', active_session_id[1])
    IN  new.steps[Len(new.steps)]

C10_StepEndPost ==
    [][/\ \A r \in Results :
             (HasStep /\ complete_step(r)) =>
                 /\ LastStepBecomes("completed")
                 /\ LastStepNew.result = r
       /\ \A e \in ErrorMessages :
             (HasStep /\ error_step(e)) =>
                 /\ LastStepBecomes("error")
                 /\ LastStepNew.error = Some(e)
       /\ \A r \in Results, e \in ErrorMessages :
             (HasActive /\ ~HasStep /\ (complete_step(r) \/ error_step(e))) =>
                 /\ sessions' = sessions
                 /\ active_session_id' = active_session_id
                 /\ Silent]_vars

\* The second of two steps was completed with a result; the first was not
\* touched.
C10_Witness ==
    /\ notified = Some("step_completed")
    /\ \E i \in 1..Len(sessions) :
          /\ active_session_id = Some(sessions[i].session_id)
          /\ Len(sessions[i].steps) = 2
          /\ sessions[i].steps[1].status = "running"
          /\ sessions[i].steps[2].status = "completed"
          /\ sessions[i].steps[2].result = Some("r1")
          /\ sessions[i].steps[2].end_time # None

\* The position of the session the pointer names, 0 when it names none.
Pointed ==
    IF HasKey(sessions, active_session_id)
    THEN DictIndex(sessions, active_session_id[1]) ELSE 0

\* Run r made a call to the monitor after its start_session.
Issued(r) == pc'[r] # pc[r] /\ pc[r] # "idle"

\* C5: with two workflow runs interleaved on one registry, the session an
\* operation acts on is the one the pointer names and not the one of the run
\* that issued it: start_step appends there, complete_step and error_step end
\* the last step there, complete_session terminates it, and every other
\* session, the issuer's own included, stays as it was.
C5_PointerDecidesTarget ==
    [][\A r \in Runs : Issued(r) =>
          /\ \A i \in 1..Len(sessions) :
                i # Pointed => sessions'[i] = sessions[i]
          /\ Pointed # 0 =>
                LET old == sessions[Pointed]
                    new == sessions'[Pointed]
                IN  /\ issued'[r] # issued[r] =>
                          /\ Len(new.steps) = Len(old.steps) + 1
                          /\ SubSeq(new.steps, 1, Len(old.steps)) = old.steps
                          /\ new.steps[Len(new.steps)].status = "running"
                    /\ (pc'[r] \in {"architect", "coder", "coder_end"}
                          /\ old.steps # <<>>) =>
                          /\ Len(new.steps) = Len(old.steps)
                          /\ new.steps[Len(new.steps)].status = "completed"
                    /\ pc'[r] = "failed" /\ old.steps # <<>> =>
                          new.steps[Len(new.steps)].status = "error"
                    /\ pc'[r] = "done" =>
                          /\ new.status = "completed"
                          /\ active_session_id' = None]_vars

\* Run A is over and its session is still 'running'; session B is
\* 'completed' although run B has not reached its complete_session, and
\* holds more steps than run B started.
C5_Witness ==
    /\ pc["A"] = "done"
    /\ pc["B"] \notin {"done", "failed"}
    /\ DictHas(sessions, "s1") /\ DictHas(sessions, "s2")
    /\ DictGet(sessions, "s1").status = "running"
    /\ DictGet(sessions, "s2").status = "completed"
    /\ Len(DictGet(sessions, "s2").steps) > issued["B"]

\* The event types subscriber i was invoked with, in order.
RECURSIVE EventsOf(_, _)
EventsOf(calls, i) ==
    IF calls = <<>> THEN <<>>
    ELSE IF Head(calls).sub = i
         THEN <<Head(calls).event_type>> \o EventsOf(Tail(calls), i)
         ELSE EventsOf(Tail(calls), i)

\* The status an object has once the transition an event reports is applied.
StatusAfter(event_type) ==
    CASE event_type \in {"session_started", "step_started"} -> "running"
      [] event_type \in {"step_completed", "session_completed"} -> "completed"
      [] event_type \in {"step_error", "session_error"} -> "error"

\* C6: the event types a subscriber has seen are, in order, those of the
\* transitions applied since it subscribed; and the object an event carries
\* shows the transition already applied.
C6_NotificationOrder ==
    /\ Len(since) = Len(subscribers)
    /\ \A i \in 1..Len(subscribers) :
          EventsOf(log, i) = SubSeq(applied, since[i] + 1, Len(applied))
    /\ \A k \in 1..Len(log) :
          /\ log[k].data.object.status = StatusAfter(log[k].event_type)
          /\ log[k].event_type \in
                {"step_completed", "step_error", "session_completed",
                 "session_error"} => log[k].data.object.end_time # None

\* A callback subscribed after the session had started has seen a step
\* start, finish, and the session complete, in that order.
C6_Witness ==
    /\ Len(subscribers) >= 1
    /\ since[1] = 1
    /\ applied = <<"session_started", "step_started", "step_completed",
                   "session_completed">>
    /\ EventsOf(log, 1) = <<"step_started", "step_completed",
                            "session_completed">>

\* C11: with an active session (the pointer holds an identifier),
\* complete_session(result) makes that session 'completed' with an end time
\* and that final result, leaves its steps as they were, clears the pointer
\* and notifies session_completed; with the pointer cleared, start_step,
\* complete_step and error_step change nothing.
C11_CompleteSessionPost ==
    [][/\ \A r \in EdgeResults :
             (active_session_id # None /\ complete_session(r)) =>
                 LET old == DictGet(sessions, active_session_id[1])
                     new == DictGet(sessions', active_session_id[1])
                 IN  /\ new.status = "completed"
                     /\ new.end_time # None
                     /\ new.final_result = r
                     /\ new.steps = old.steps
                     /\ active_session_id' = None
                     /\ Sent("session_completed")
       /\ \A a \in AgentNames, n \in EdgeStepNames, r \in EdgeResults,
             e \in ErrorMessages :
             (/\ active_session_id = None
              /\ start_step(a, n) \/ complete_step(r) \/ error_step(e)) =>
                 /\ sessions' = sessions
                 /\ active_session_id' = None
                 /\ Silent]_vars

\* The session record, as get_session returns it, or its serialized view
\* holds the message in a field of the session.
ExposesMessage(session, msg) ==
    \/ session.final_result = Some(msg)
    \/ _session_to_dict(session).final_result = Some(msg)

\* C12: after error_session(msg) on the active session, the session is in
\* status 'error' with an end time, the pointer is cleared, and msg is stored
\* in the session record, where get_session and the serialized view show it.
C12_ErrorSessionStoresMessage ==
    [][\A e \in ErrorMessages :
          (HasActive /\ error_session(e)) =>
              LET id == active_session_id[1]
                  new == DictGet(sessions', id)
              IN  /\ new.status = "error"
                  /\ new.end_time # None
                  /\ active_session_id' = None
                  /\ ExposesMessage(new, e)]_vars

\* C13: when a stage of a workflow run has failed and the run has returned,
\* the session of the run has status 'error' and is not the active session.
C13_FailedRunEndsInError ==
    \A r \in Runs :
        pc[r] = "failed" =>
            /\ DictGet(sessions, RunSession(r)).status = "error"
            /\ active_session_id # Some(RunSession(r))

\* C14: a step whose status is 'completed' or 'error' is left as it is by
\* every operation: status, end time, result and error message stay.
C14_StepTerminal ==
    [][\A i \in 1..Len(sessions) :
          \A j \in 1..Len(sessions[i].steps) :
              (/\ sessions[i].steps[j].status \in Terminal
               /\ j <= Len(sessions'[i].steps)) =>
                  LET old == sessions[i].steps[j]
                      new == sessions'[i].steps[j]
                  IN  /\ new.status = old.status
                      /\ new.end_time = old.end_time
                      /\ new.result = old.result
                      /\ new.error = old.error]_vars

\* A step of the session is in status 'error'.
HasErroredStep(session) ==
    \E j \in 1..Len(session.steps) : session.steps[j].status = "error"

\* C15: once a step of the active session has errored, start_step and
\* complete_step no longer change the session, and the session does not
\* become 'completed'.
C15_ErroredStepEndsSession ==
    [][\A i \in 1..Len(sessions) :
          (/\ active_session_id = Some(sessions[i].session_id)
           /\ HasErroredStep(sessions[i])) =>
              /\ \A a \in AgentNames, n \in StepNames, r \in Results :
                    (start_step(a, n) \/ complete_step(r)) =>
                        sessions'[i] = sessions[i]
              /\ \A r \in Results :
                    complete_session(r) => sessions'[i].status # "completed"]_vars

\* C16: in the serialized view of every registered session, a step with
\* status 'completed' has no error and a step with status 'error' carries a
\* message given to error_step.
C16_SerializedStepError ==
    \A i \in 1..Len(sessions) :
        LET view == _session_to_dict(sessions[i])
        IN  \A j \in 1..Len(view.steps) :
                /\ view.steps[j].status = "completed" =>
                      view.steps[j].error = None
                /\ view.steps[j].status = "error" =>
                      \E e \in ErrorMessages : view.steps[j].error = Some(e)

\* The view holds the identifier, prompt and status of the session and one
\* entry per step, in order, with the step's agent name, step name and
\* status.
ViewOf(view, session) ==
    /\ view.session_id = session.session_id
    /\ view.user_prompt = session.user_prompt
    /\ view.status = session.status
    /\ Len(view.steps) = Len(session.steps)
    /\ \A j \in 1..Len(session.steps) :
          /\ view.steps[j].agent_name = session.steps[j].agent_name
          /\ view.steps[j].step_name = session.steps[j].step_name
          /\ view.steps[j].status = session.steps[j].status

\* The call that has just returned is call.
Called(call) == returned' # None /\ returned'[1].call = call

\* C17: to_dict leaves the registry as it was; asked for a registered
\* session it returns a view holding the session's identifier, prompt and
\* status and one entry per step, in order, with agent name, step name and
\* status; asked for the registry it returns such a view of every registered
\* session.
C17_SerializationComplete ==
    [][Called("to_dict") =>
          LET arg == returned'[1].arg
              value == returned'[1].value
          IN  /\ monitor' = monitor
              /\ (Truthy(arg) /\ DictHas(sessions, arg[1])) =>
                    ViewOf(value, DictGet(sessions, arg[1]))
              /\ (Truthy(arg) /\ ~DictHas(sessions, arg[1])) =>
                    value = EmptyDict
              /\ ~Truthy(arg) =>
                    /\ Len(value.sessions) = Len(sessions)
                    /\ \A i \in 1..Len(sessions) :
                          ViewOf(value.sessions[i], sessions[i])
                    /\ value.active_session_id = active_session_id]_vars

\* to_dict('s1') has returned the view of a session with a completed and an
\* errored step.
C17_Witness ==
    /\ returned # None
    /\ returned[1].call = "to_dict"
    /\ returned[1].arg = Some("s1")
    /\ returned[1].value # EmptyDict
    /\ Len(returned[1].value.steps) = 2
    /\ returned[1].value.steps[1].status = "completed"
    /\ returned[1].value.steps[2].status = "error"

\* Session x comes before session y in the recency order: it started later
\* or, started at the same reading of the clock, its identifier was
\* registered first.
Precedes(x, y) ==
    \/ x.start_time > y.start_time
    \/ /\ x.start_time = y.start_time
       /\ DictIndex(sessions, x.session_id) < DictIndex(sessions, y.session_id)

Min(a, b) == IF a < b THEN a ELSE b

\* C18: get_recent_sessions(limit), limit >= 0, leaves the registry as it was
\* and returns min(limit, number of sessions) registered sessions, each
\* before the next in the recency order and each before every session left
\* out.
C18_RecencyOrder ==
    [][(Called("get_recent_sessions") /\ returned'[1].arg[1] >= 0) =>
          LET limit == returned'[1].arg[1]
              value == returned'[1].value
              ids == {value[a].session_id : a \in 1..Len(value)}
          IN  /\ monitor' = monitor
              /\ Len(value) = Min(limit, Len(sessions))
              /\ \A a \in 1..Len(value) :
                    /\ DictHas(sessions, value[a].session_id)
                    /\ value[a] = DictGet(sessions, value[a].session_id)
              /\ \A a, b \in 1..Len(value) :
                    a < b => Precedes(value[a], value[b])
              /\ \A a \in 1..Len(value), i \in 1..Len(sessions) :
                    sessions[i].session_id \notin ids =>
                        Precedes(value[a], sessions[i])]_vars

\* Of three sessions, the first two started at the same reading of the clock
\* and the third later; get_recent_sessions(2) has returned the third and
\* then the first.
C18_Witness ==
    /\ Len(sessions) = 3
    /\ sessions[1].start_time = sessions[2].start_time
    /\ sessions[3].start_time > sessions[2].start_time
    /\ returned # None
    /\ returned[1].call = "get_recent_sessions"
    /\ returned[1].arg = <<2>>
    /\ returned[1].value = <<sessions[3], sessions[1]>>

\* C19: a callback that registers comes after those registered before it,
\* and a notification invokes the callbacks one after another in that order:
\* the k-th call goes to the k-th registered callback.
C19_DeliveryInSubscriptionOrder ==
    [][/\ subscribers' # subscribers =>
             /\ Len(subscribers') = Len(subscribers) + 1
             /\ SubSeq(subscribers', 1, Len(subscribers)) = subscribers
       /\ (OpStep /\ notified' # None) =>
             /\ Len(delivered') = Len(subscribers)
             /\ \A k \in 1..Len(delivered') :
                   /\ delivered'[k].sub = k
                   /\ delivered'[k].callback = subscribers[k]]_vars

\* A recording callback registered before a raising one; start_step has
\* invoked the recording one first and the raising one second.
C19_Witness ==
    /\ Len(subscribers) = 2
    /\ subscribers[1] = "cb1" /\ subscribers[2] = "bad"
    /\ notified = Some("step_started")
    /\ Len(delivered) = 2
    /\ delivered[1].callback = "cb1"
    /\ delivered[2].callback = "bad"

\* C20: no call has raised: the lookup of the active session has always
\* found its entry, and a query for an identifier that is not registered has
\* returned None (get_session) or the empty dict (to_dict).
C20_OperationsTotal ==
    /\ exc = None
    /\ Truthy(active_session_id) => DictHas(sessions, active_session_id[1])
    /\ returned # None =>
          LET call == returned[1].call
              arg == returned[1].arg
              value == returned[1].value
          IN  /\ (call = "get_session" /\ ~DictHas(sessions, arg[1])) =>
                    value = None
              /\ (call = "get_session" /\ DictHas(sessions, arg[1])) =>
                    value = Some(DictGet(sessions, arg[1]))
              /\ (call = "to_dict" /\ Truthy(arg)
                    /\ ~DictHas(sessions, arg[1])) => value = EmptyDict

\* With the session '' registered and a start_step that found no active
\* session, get_session('s1') has returned None.
C20_Witness ==
    /\ active_session_id = Some("")
    /\ notified = None
    /\ returned # None
    /\ returned[1].call = "get_session"
    /\ returned[1].arg = <<"s1">>
    /\ returned[1].value = None

\* C21: asked for an identifier that is not registered, get_session returns
\* None and to_dict(identifier) returns the empty dict; neither changes the
\* registry or the pointer.
C21_AbsentLookup ==
    [][/\ (Called("get_session")
             /\ ~DictHas(sessions, returned'[1].arg[1])) =>
             /\ returned'[1].value = None
             /\ monitor' = monitor
       /\ (Called("to_dict") /\ returned'[1].arg # None
             /\ ~DictHas(sessions, returned'[1].arg[1])) =>
             /\ returned'[1].value = EmptyDict
             /\ monitor' = monitor]_vars

\* The operation did not replace the entry of session i by a new session.
Kept(i) == ~Restarted(sessions[i].session_id)

\* C22: no operation changes a step that is not the last of its session: a
\* step overtaken by a later start_step while 'running' keeps status
\* 'running' and no end time through every operation on its session.
C22_OvertakenStepStaysRunning ==
    [][\A i \in 1..Len(sessions) :
          Kept(i) =>
              /\ Len(sessions'[i].steps) >= Len(sessions[i].steps)
              /\ \A j \in 1..(Len(sessions[i].steps) - 1) :
                    /\ sessions'[i].steps[j] = sessions[i].steps[j]
                    /\ sessions[i].steps[j].status = "running" =>
                          /\ sessions'[i].steps[j].status = "running"
                          /\ sessions'[i].steps[j].end_time = None]_vars

\* The first step was still 'running' when the second started; the second
\* has errored and the session has completed, and the first is 'running'
\* without end time.
C22_Witness ==
    \E i \in 1..Len(sessions) :
        /\ sessions[i].status = "completed"
        /\ Len(sessions[i].steps) = 2
        /\ sessions[i].steps[1].status = "running"
        /\ sessions[i].steps[1].end_time = None
        /\ sessions[i].steps[2].status = "error"

\* C23: an operation changes no session but the one the pointer names: a
\* session that another start_session has taken the pointer from keeps its
\* status 'running', no end time and its steps through every operation.
C23_AbandonedSessionStaysRunning ==
    [][\A i \in 1..Len(sessions) :
          (/\ active_session_id # Some(sessions[i].session_id)
           /\ Kept(i)) =>
              /\ sessions'[i] = sessions[i]
              /\ sessions[i].status = "running" =>
                    /\ sessions'[i].status = "running"
                    /\ sessions'[i].end_time = None
                    /\ sessions'[i].steps = sessions[i].steps]_vars

\* Session s1 lost the pointer to s2 while its step was running; s2 has had
\* a step completed and has been completed itself, and s1 is as it was left.
C23_Witness ==
    /\ DictHas(sessions, "s1") /\ DictHas(sessions, "s2")
    /\ active_session_id = None
    /\ DictGet(sessions, "s1").status = "running"
    /\ DictGet(sessions, "s1").end_time = None
    /\ Len(DictGet(sessions, "s1").steps) = 1
    /\ DictGet(sessions, "s1").steps[1].status = "running"
    /\ DictGet(sessions, "s2").status = "completed"
    /\ Len(DictGet(sessions, "s2").steps) = 1
    /\ DictGet(sessions, "s2").steps[1].status = "completed"
    /\ DictIndex(sessions, "s1") < DictIndex(sessions, "s2")

\* The record new is the session old, with the steps it had and possibly
\* more recorded for it.
SameSession(old, new) ==
    /\ new.session_id = old.session_id
    /\ new.user_prompt = old.user_prompt
    /\ new.start_time = old.start_time
    /\ Len(new.steps) >= Len(old.steps)
    /\ \A j \in 1..Len(old.steps) :
          /\ new.steps[j].agent_name = old.steps[j].agent_name
          /\ new.steps[j].step_name = old.steps[j].step_name
          /\ new.steps[j].start_time = old.steps[j].start_time
    /\ old.end_time # None =>
          /\ new.status = old.status
          /\ new.final_result = old.final_result

\* C24 as stated: every session created by start_session stays in the
\* registry: after every operation get_session(id) returns that session, with
\* the steps, status and result recorded for it.
C24_SessionsRetained ==
    [][/\ Len(sessions') >= Len(sessions)
       /\ \A i \in 1..Len(sessions) :
             LET id == sessions[i].session_id
             IN  /\ get_session(id)' # None
                 /\ SameSession(sessions[i], (get_session(id)')[1])]_vars

\* C24: every identifier stays registered, and get_session(id) returns the
\* session last started under it with the steps, status and result recorded
\* for it; a start_session with the same identifier replaces the session by
\* a new one, 'running' and without steps.
C24_RetainedUntilRestarted ==
    [][/\ Len(sessions') >= Len(sessions)
       /\ \A i \in 1..Len(sessions) :
             LET id == sessions[i].session_id
             IN  /\ get_session(id)' # None
                 /\ get_session(id)' = Some(sessions'[i])
                 /\ Kept(i) => SameSession(sessions[i], sessions'[i])
                 /\ Restarted(id) =>
                       /\ sessions'[i].status = "running"
                       /\ sessions'[i].steps = <<>>
                       /\ sessions'[i].end_time = None]_vars

\* Session s1 was completed with a step and a result; s2 has since been
\* started, given a step and put in error, and s1 is still registered with
\* what was recorded for it.
C24_Witness ==
    /\ get_session("s1") # None /\ get_session("s2") # None
    /\ DictIndex(sessions, "s1") < DictIndex(sessions, "s2")
    /\ get_session("s1")[1].status = "completed"
    /\ get_session("s1")[1].final_result = Some("r1")
    /\ Len(get_session("s1")[1].steps) = 1
    /\ get_session("s2")[1].status = "error"
    /\ Len(get_session("s2")[1].steps) = 1

\* A stored Optional value is rendered as null exactly when it is unset.
NullIffUnset(rendered, stored) == (rendered = None) <=> (stored = None)

\* C25: in the serialized view of every registered session, an end time is
\* null exactly when it is unset and the ISO text of the time otherwise; a
\* step result or final result is null exactly when none is stored and the
\* display string of the stored value otherwise.
C25_OptionalRendering ==
    \A i \in 1..Len(sessions) :
        LET session == sessions[i]
            view == _session_to_dict(session)
        IN  /\ NullIffUnset(view.end_time, session.end_time)
            /\ session.end_time # None =>
                  view.end_time = Some(isoformat(session.end_time[1]))
            /\ NullIffUnset(view.final_result, session.final_result)
            /\ session.final_result # None =>
                  view.final_result = Some(str(session.final_result[1]))
            /\ \A j \in 1..Len(session.steps) :
                  LET step == session.steps[j]
                      entry == view.steps[j]
                  IN  /\ NullIffUnset(entry.end_time, step.end_time)
                      /\ step.end_time # None =>
                            entry.end_time = Some(isoformat(step.end_time[1]))
                      /\ NullIffUnset(entry.result, step.result)
                      /\ step.result # None =>
                            entry.result = Some(str(step.result[1]))

\* C26: once the broadcast of a workflow update has ended, the message has
\* been sent to every connection that has stayed connected since the
\* subscriber scheduled the broadcast, whatever the sends to the other
\* connections did.
C26_BadClientIsolated ==
    \A m \in Messages :
        broadcasts[m].pc = "done" =>
            \A websocket \in stayed[m] : <<websocket, m>> \in sent

\* The sockets whose send has the given result in the gather that is
\* ending.
SentWith(result) ==
    {fast.tasks[i] : i \in {k \in 1..Len(fast.tasks) :
                                fast.results[k] = result}}

\* C27: when a broadcast_fast call completes, every connection whose send
\* raised is no longer in active_connections, and the connections whose
\* send succeeded are in it as they were before the call completed,
\* whatever connect and disconnect calls ran while the sends were awaited.
C27_PrunesExactlyFailed ==
    [][fast.pc = "gather" /\ fast'.pc = "done" =>
          /\ \A websocket \in SentWith("exception") :
                 ~Contains(active_connections', websocket)
          /\ \A websocket \in SentWith("ok") :
                 Contains(active_connections, websocket) =>
                     Contains(active_connections', websocket)]_vars

\* C28: the active pointer is unset, or it names an identifier registered
\* in the session table whose session has status 'running'; no session
\* with status 'completed' or 'error' is the active session.
C28_ActivePointer ==
    /\ active_session_id # None =>
           /\ DictHas(sessions, active_session_id[1])
           /\ DictGet(sessions, active_session_id[1]).status = "running"
    /\ \A i \in 1..Len(sessions) :
           sessions[i].status \in Terminal =>
               active_session_id # Some(sessions[i].session_id)

\* A session is active while another one has ended.
C28_Witness ==
    /\ active_session_id # None
    /\ \E i \in 1..Len(sessions) : sessions[i].status \in Terminal

\* C29: a session has an end time exactly when its status is 'completed'
\* or 'error', and so has a step.
C29_StatusAndEndTimeAgree ==
    \A i \in 1..Len(sessions) :
        /\ sessions[i].end_time # None <=> sessions[i].status \in Terminal
        /\ \A j \in 1..Len(sessions[i].steps) :
               sessions[i].steps[j].end_time # None
                   <=> sessions[i].steps[j].status \in Terminal

\* A session that has ended holds a step that has ended and a step that is
\* still running.
C29_Witness ==
    \E i \in 1..Len(sessions) :
        /\ sessions[i].status \in Terminal
        /\ sessions[i].end_time # None
        /\ \E j, k \in 1..Len(sessions[i].steps) :
               /\ sessions[i].steps[j].status = "running"
               /\ sessions[i].steps[j].end_time = None
               /\ sessions[i].steps[k].status \in Terminal
               /\ sessions[i].steps[k].end_time # None

\* C30: a get of a key that has been set returns the value of the last set
\* of that key, whatever sets and gets came before and however many
\* entries the in-memory map holds.
C30_ReadYourWrite ==
    got # None =>
        (written[got[1].key] # None => got[1].value = written[got[1].key])

====
